---- MODULE Spec2Model ----
(***************************************************************************)
(* Marketplace backend: users, product listings with image files, carts,   *)
(* admin moderation and checkout, over a document store.                   *)
(*                                                                         *)
(* Every route handler is an async function: each `await` of a store       *)
(* operation is a point where another request may run.  A handler is       *)
(* therefore one action per store operation, each action covering the      *)
(* synchronous code that runs up to the next await.  The arrival of a      *)
(* request changes nothing in the store, so it is part of the handler's    *)
(* first action, which draws the request's inputs.                         *)
(*                                                                         *)
(* document.save() of an existing document sends only the paths modified   *)
(* since it was loaded ($set of the delta) and fails when the document is  *)
(* gone; findOneAndUpdate and findByIdAndDelete are single atomic store    *)
(* operations.                                                             *)
(***************************************************************************)
EXTENDS Integers, Sequences, FiniteSets, TLC

(* ------------------------------ bounds -------------------------------- *)

\* products created in one behaviour
MaxProducts == 1
\* image files uploaded in one behaviour
MaxFiles == 2
\* successful checkouts of one product after which no checkout is started
MaxSales == 2
\* image files sent with one create request
MaxImages == 2
\* quantity of one cart line
MaxQuantity == 3
\* lines of one cart
MaxLines == 3
\* users registered in one behaviour
MaxUsers == 2
\* connection attempts counted at startup (the count stays at the bound)
MaxAttempts == 5

VARIABLES
    users,      \* users collection: id -> document
    products,   \* products collection: id -> document
    files,      \* paths of the files present in the uploads directory
    carts,      \* carts collection, in insertion order
    reqs,       \* handler slot -> the request it is running or has answered
    nextPid,    \* next fresh product id
    nextFile,   \* next fresh upload file name
    nextUid,    \* next fresh user id
    sales,      \* history: product id -> its checkouts answered with success
    adds,       \* history: user, product -> adds answered since the line was absent
    server,     \* the process: its startup position, pending timers, what it serves
    db          \* whether the database can be reached

\* what the request handlers work on
store == <<users, products, files, carts, reqs, nextPid, nextFile, nextUid, sales, adds>>

vars == <<users, products, files, carts, reqs, nextPid, nextFile, nextUid, sales, adds,
          server, db>>

(* ------------------------------ values -------------------------------- *)

\* JavaScript values that the handlers compare with === / !==
Str(v) == [type |-> "string", val |-> v]
Oid(v) == [type |-> "ObjectId", val |-> v]
IdToString(x) == Str(x.val)
StrictEq(a, b) == a = b

NoRef == [type |-> "undefined", val |-> "none"]
NoDate == "unset"
SomeDate == "set"
NoAddress == "none"
NoDoc == [status |-> "absent"]

Slots == {"r1", "r2"}
UserIds == {"seller", "buyer", "admin"}
GhostId == "gone"
ProductIds == 1..MaxProducts
Addresses == {"addr1"}
\* product ids as hex text: the stored form, and one written in capitals
P_One == <<"a", "1">>
P_OneUpper == <<"A", "1">>
P_Two == <<"c", "2">>
CartProducts == {P_One, P_Two}

Space == " "
T_Hat == <<"H", "a", "t">>
T_PaddedHat == <<" ", "H", "a", "t", " ">>
T_Shoe == <<"s", "h", "o", "e">>
T_RedHat == <<"r", "e", "d", " ", "h", "a", "t">>
T_Blank == <<" ">>
T_Empty == <<>>
T_Phone == <<"5", "5", "5">>
T_QueryHA == <<"H", "A">>
T_QueryOe == <<"o", "e">>
E_Ann == <<"a", "@", "x">>
E_AnnUpper == <<" ", "A", "@", "x">>
E_Bob == <<"b", "@", "x">>
E_NoAt == <<"a", "x">>

LowerChar(c) ==
    CASE c = "H" -> "h"
      [] c = "A" -> "a"
      [] OTHER -> c

\* String.prototype.toLowerCase: what the case-insensitive $regex compares
Lower(s) == [i \in 1..Len(s) |-> LowerChar(s[i])]

RECURSIVE TrimLeft(_)
TrimLeft(s) ==
    IF s # <<>> /\ Head(s) = Space THEN TrimLeft(Tail(s)) ELSE s

RECURSIVE TrimRight(_)
TrimRight(s) ==
    IF s # <<>> /\ s[Len(s)] = Space THEN TrimRight(SubSeq(s, 1, Len(s) - 1)) ELSE s

\* String.prototype.trim
Trim(s) == TrimRight(TrimLeft(s))

\* { $regex: q, $options: 'i' } for a query of plain characters
RegexMatch(text, q) ==
    \E i \in 0..(Len(text) - Len(q)) :
        Lower(SubSeq(text, i + 1, i + Len(q))) = Lower(q)

NumericStrings == {"0", "10", "25"}
IsNaN(s) == s \notin NumericStrings /\ s # ""
ParseFloat(s) ==
    CASE s = "0" -> 0
      [] s = "10" -> 10
      [] s = "25" -> 25

validCategories == {"shoes", "clothes", "accessories", "electronics", "other"}

(* ------------------------------ the process --------------------------- *)

\* setTimeout(connectWithRetry, 5000)
RetryDelay == 5000

\* process.env.PORT || 5001
DefaultPort == 5001

MONGO_URL == "mongodb://db"

\* the process after startup: connected, routes mounted, listening
Serving ==
    [pc |-> "listening", uri |-> MONGO_URL, port |-> DefaultPort, attempts |-> 1,
     timers |-> <<>>, connected |-> TRUE, indexes |-> "created", mounted |-> TRUE,
     listening |-> TRUE]

(* ----------------------------- requests ------------------------------- *)

NoUser == [id |-> NoRef, isAdmin |-> FALSE]
NoInput == [kind |-> "none"]

\* a slot with no request
\* paths: the files a request handles (req.files, the images of a deleted product)
Idle ==
    [pc |-> "idle", op |-> "none", user |-> NoUser, pid |-> 0, delta |-> <<>>,
     input |-> NoInput, paths |-> {}, status |-> 0, msg |-> "", result |-> <<>>]

\* a request is taken by the first slot that runs none, after the answers of
\* the earlier requests are delivered (Close)
Free(r) ==
    /\ reqs[r].pc = "idle"
    /\ \A x \in Slots : reqs[x].pc # "done"
    /\ r = "r2" => reqs["r1"].pc # "idle"

\* a request that has passed its middleware
Started(op, user, pid, input) ==
    [Idle EXCEPT !.op = op, !.user = user, !.pid = pid, !.input = input]

\* res.status(status).json({ message: msg, ... })
Respond(req, status, msg) ==
    [req EXCEPT !.pc = "done", !.status = status, !.msg = msg, !.delta = <<>>,
                !.input = NoInput]

\* the handler awaits a store operation; delta is what a pending save() will write
Await(req, pc, delta) == [req EXCEPT !.pc = pc, !.delta = delta]

\* a step of a route handler: the routes are mounted and the server listens
Set(r, req) ==
    /\ server.listening
    /\ reqs' = [reqs EXCEPT ![r] = req]
    /\ UNCHANGED <<server, db>>

(* --------------------------- authentication --------------------------- *)

NoToken == [kind |-> "none", id |-> GhostId, isAdmin |-> FALSE]
BadToken == [kind |-> "invalid", id |-> GhostId, isAdmin |-> FALSE]
Jwt(id, claim) == [kind |-> "jwt", id |-> id, isAdmin |-> claim]
\* a token per account with the claim it was signed with, one whose claim is not
\* the store's flag, one of a user who is not in the store
Tokens ==
    {NoToken, BadToken, Jwt(GhostId, FALSE), Jwt("seller", TRUE)}
        \cup {Jwt(u, u = "admin") : u \in UserIds}

\* the two ordinary accounts are alike: the one that lists products is "seller"
SellerTokens == Tokens \ {Jwt("buyer", FALSE)}

Denied(status, msg) == [ok |-> FALSE, status |-> status, msg |-> msg, user |-> NoUser]
Granted(user) == [ok |-> TRUE, status |-> 0, msg |-> "", user |-> user]

authGhostNotFound(tok) ==
    IF tok.kind = "none" THEN Denied(401, "No token, authorization denied")
    ELSE IF tok.kind = "invalid" THEN Denied(401, "Token is not valid")
    ELSE IF tok.id \notin DOMAIN users THEN Denied(404, "User not found")
    ELSE Granted([id |-> Oid(tok.id), isAdmin |-> users[tok.id].isAdmin])

\* middleware auth: the user is read from the store, the token's claim is not used
auth(tok) ==
    IF tok.kind = "none" THEN Denied(401, "No token, authorization denied")
    ELSE IF tok.kind = "invalid" THEN Denied(401, "Token is not valid")
    ELSE IF tok.id \notin DOMAIN users THEN Denied(401, "User not found")
    ELSE Granted([id |-> Oid(tok.id), isAdmin |-> users[tok.id].isAdmin])

adminAuthAnyUser(a) == a

\* middleware adminAuth, after auth
adminAuth(a) ==
    IF ~a.ok THEN a
    ELSE IF a.user.id.val \notin DOMAIN users THEN Denied(401, "User not found")
    ELSE IF ~users[a.user.id.val].isAdmin
         THEN Denied(403, "Access denied. Admin privileges required.")
    ELSE a

(* ------------------------------ the store ----------------------------- *)

\* Product.findById
findById(pid) == IF pid \in DOMAIN products THEN products[pid] ELSE NoDoc

\* the modified paths of a loaded document after the handler's assignments: an
\* assignment of the value a path already has does not mark it modified
Delta(loaded, edited) ==
    [f \in {g \in DOMAIN loaded : edited[g] # loaded[g]} |-> edited[f]]

\* document.save() of a loaded document: DocumentNotFoundError when it is gone
SaveOk(pid) == pid \in DOMAIN products

\* the store after save(): updateOne({ _id }, { $set: delta })
Saved(pid, delta) ==
    [products EXCEPT ![pid] =
        [f \in DOMAIN @ |-> IF f \in DOMAIN delta THEN delta[f] ELSE @[f]]]

\* file.path of an upload: multer's destination (cwd/uploads) and filename
FilePath(n) == [dir |-> <<"cwd", "uploads">>, name |-> n]

\* the image path kept in the product: `/uploads/${file.filename}`
ImagePath(n) == [dir |-> <<"uploads">>, name |-> n]

FullPathInUploads(image) ==
    [dir |-> <<"cwd", "uploads">> \o image.dir, name |-> image.name]

\* path.join(process.cwd(), imagePath)
FullPath(image) == [dir |-> <<"cwd">> \o image.dir, name |-> image.name]

\* fs.unlinkSync of each of these paths
Unlinked(paths) == files \ paths

(* --------------------------- request bodies --------------------------- *)

Body(name, price, description, category, contactNumber) ==
    [kind |-> "body", name |-> name, price |-> price, description |-> description,
     category |-> category, contactNumber |-> contactNumber]

B_Hat == Body(T_PaddedHat, "10", T_Empty, "", T_Phone)
B_Shoe == Body(T_Shoe, "25", T_RedHat, "shoes", T_Phone)
ValidBodies == {B_Hat, B_Shoe}
InvalidBodies ==
    {Body(T_Blank, "10", T_Empty, "", T_Phone),
     Body(T_Hat, "abc", T_Empty, "", T_Phone),
     Body(T_Hat, "10", T_Empty, "", T_Blank),
     Body(T_Hat, "10", T_Empty, "toys", T_Phone)}
Bodies == ValidBodies \cup InvalidBodies

\* the validation shared by POST / and PUT /:id: "" when the body passes, else
\* the message of the 400 response
BodyError(b) ==
    IF Trim(b.name) = <<>> THEN "Product name is required"
    ELSE IF b.price = "" \/ IsNaN(b.price) \/ ParseFloat(b.price) <= 0
         THEN "Please enter a valid price"
    ELSE IF Trim(b.contactNumber) = <<>> THEN "Contact number is required"
    ELSE IF b.category # "" /\ b.category \notin validCategories THEN "Invalid category"
    ELSE ""

\* the fields POST / and PUT /:id take from a body that passed validation
BodyFields(b) ==
    [name |-> Trim(b.name), price |-> ParseFloat(b.price),
     description |-> Trim(b.description),
     category |-> IF b.category = "" THEN "other" ELSE b.category,
     contactNumber |-> Trim(b.contactNumber)]

NewProductApproved(b, images, seller) ==
    [name |-> BodyFields(b).name, price |-> BodyFields(b).price,
     description |-> BodyFields(b).description, category |-> BodyFields(b).category,
     contactNumber |-> BodyFields(b).contactNumber,
     images |-> images, status |-> "approved", isActive |-> TRUE, seller |-> seller,
     buyer |-> NoRef, soldAt |-> NoDate, shippingAddress |-> NoAddress]

\* new Product({...}) with the schema's defaults
NewProduct(b, images, seller) ==
    [name |-> BodyFields(b).name, price |-> BodyFields(b).price,
     description |-> BodyFields(b).description, category |-> BodyFields(b).category,
     contactNumber |-> BodyFields(b).contactNumber,
     images |-> images, status |-> "pending", isActive |-> TRUE, seller |-> seller,
     buyer |-> NoRef, soldAt |-> NoDate, shippingAddress |-> NoAddress]

(* ------------------------- POST /products ----------------------------- *)

UploadLimit == 5

\* auth, multer's upload of n image files, the validation and new Product()
CreateUpload(r, tok, n, b) ==
    LET a == auth(tok)
        names == (nextFile + 1)..(nextFile + n)
        req == [Started("create", a.user, nextPid, b) EXCEPT !.paths = names]
    IN  /\ n <= UploadLimit
        /\ IF ~a.ok
           THEN /\ Set(r, Respond(Started("create", NoUser, 0, NoInput), a.status, a.msg))
                /\ UNCHANGED <<files, nextFile, nextPid>>
           ELSE /\ nextPid <= MaxProducts
                /\ nextFile + n <= MaxFiles
                /\ files' = files \cup {FilePath(f) : f \in names}
                /\ nextFile' = nextFile + n
                /\ IF BodyError(b) # ""
                   THEN Set(r, Respond(req, 400, BodyError(b))) /\ UNCHANGED nextPid
                   ELSE IF n = 0
                   THEN Set(r, Respond(req, 400, "At least one image is required"))
                        /\ UNCHANGED nextPid
                   ELSE Set(r, Await(req, "create_save", <<>>)) /\ nextPid' = nextPid + 1
        /\ UNCHANGED <<users, nextUid, adds, products, carts, sales>>

\* product.save(): the insert, or the catch block that unlinks the paths
CreateSave(r, stored) ==
    /\ reqs[r].pc = "create_save"
    /\ IF stored
       THEN /\ products' =
                 [p \in DOMAIN products \cup {reqs[r].pid} |->
                     IF p = reqs[r].pid
                     THEN NewProduct(reqs[r].input,
                                     {ImagePath(f) : f \in reqs[r].paths},
                                     reqs[r].user.id)
                     ELSE products[p]]
            /\ Set(r, Respond(reqs[r], 201, "Product added successfully!"))
            /\ UNCHANGED files
       ELSE /\ files' = Unlinked({FilePath(f) : f \in reqs[r].paths})
            /\ Set(r, Respond(reqs[r], 400, "Failed to add product. Please try again."))
            /\ UNCHANGED products
    /\ UNCHANGED <<users, nextUid, adds, carts, nextPid, nextFile, sales>>

(* ----------------------- PUT /products/:id/status --------------------- *)

ModerationStatusesAny == {"approved", "rejected", "pending"}

\* the statuses a moderation request may carry: ['approved', 'rejected']
ModerationStatuses == {"approved", "rejected"}

StatusInputs == {"approved", "rejected", "pending"}

\* auth, adminAuth, the status validation and Product.findById
ModerateFind(r, tok, pid, status) ==
    LET a == adminAuth(auth(tok))
        req == Started("moderate", a.user, pid, [kind |-> "status", status |-> status])
    IN  /\ IF ~a.ok THEN Set(r, Respond(req, a.status, a.msg))
           ELSE IF status \notin ModerationStatuses
           THEN Set(r, Respond(req, 400,
                        "Invalid status. Must be either \"approved\" or \"rejected\""))
           ELSE IF findById(pid) = NoDoc THEN Set(r, Respond(req, 404, "Product not found"))
           ELSE Set(r, Await(req, "moderate_save",
                        Delta(findById(pid), [findById(pid) EXCEPT !.status = status])))
        /\ UNCHANGED <<users, nextUid, adds, products, files, carts, nextPid, nextFile, sales>>

\* product.status = status; product.save()
ModerateSave(r) ==
    /\ reqs[r].pc = "moderate_save"
    /\ IF SaveOk(reqs[r].pid)
       THEN /\ products' = Saved(reqs[r].pid, reqs[r].delta)
            /\ Set(r, Respond(reqs[r], 200,
                    IF reqs[r].input.status = "approved"
                    THEN "Product approved successfully"
                    ELSE "Product rejected successfully"))
       ELSE /\ Set(r, Respond(reqs[r], 500, "Failed to update product status"))
            /\ UNCHANGED products
    /\ UNCHANGED <<users, nextUid, adds, files, carts, nextPid, nextFile, sales>>

(* -------------------- PUT /products/:id/toggle-active ----------------- *)

\* product.seller.toString() !== req.user.id && !req.user.isAdmin, where
\* req.user.id is the ObjectId that auth attached
ToggleForbidden(doc, user) ==
    ~StrictEq(IdToString(doc.seller), user.id) /\ ~user.isAdmin

\* auth, Product.findById and the seller-or-admin check
ToggleFind(r, tok, pid) ==
    LET a == auth(tok)
        req == Started("toggle", a.user, pid, NoInput)
    IN  /\ IF ~a.ok THEN Set(r, Respond(req, a.status, a.msg))
           ELSE IF findById(pid) = NoDoc THEN Set(r, Respond(req, 404, "Product not found"))
           ELSE IF ToggleForbidden(findById(pid), a.user)
           THEN Set(r, Respond(req, 403, "Not authorized to modify this product"))
           ELSE Set(r, Await(req, "toggle_save",
                        Delta(findById(pid),
                              [findById(pid) EXCEPT !.isActive = ~findById(pid).isActive])))
        /\ UNCHANGED <<users, nextUid, adds, products, files, carts, nextPid, nextFile, sales>>

\* product.isActive = !product.isActive; product.save()
ToggleSave(r) ==
    /\ reqs[r].pc = "toggle_save"
    /\ IF SaveOk(reqs[r].pid)
       THEN /\ products' = Saved(reqs[r].pid, reqs[r].delta)
            /\ Set(r, Respond(reqs[r], 200,
                    IF reqs[r].delta.isActive THEN "Product activated successfully"
                    ELSE "Product deactivated successfully"))
       ELSE /\ Set(r, Respond(reqs[r], 500, "DocumentNotFoundError"))
            /\ UNCHANGED products
    /\ UNCHANGED <<users, nextUid, adds, files, carts, nextPid, nextFile, sales>>

(* ------------------- PUT /products/:id, DELETE /products/:id ---------- *)

OwnerForbiddenById(doc, user) ==
    ~StrictEq(IdToString(doc.seller), user.id) /\ ~user.isAdmin

\* product.seller.toString() !== req.user.id.toString() && !req.user.isAdmin
OwnerForbidden(doc, user) ==
    ~StrictEq(IdToString(doc.seller), IdToString(user.id)) /\ ~user.isAdmin

\* the field assignments of PUT /:id
Edited(doc, b) ==
    [doc EXCEPT !.name = BodyFields(b).name, !.price = BodyFields(b).price,
                !.description = BodyFields(b).description,
                !.category = BodyFields(b).category,
                !.contactNumber = BodyFields(b).contactNumber]

\* auth, Product.findById, the seller-or-admin check, the validation and the
\* field assignments
UpdateFind(r, tok, pid, b) ==
    LET a == auth(tok)
        req == Started("update", a.user, pid, NoInput)
    IN  /\ IF ~a.ok THEN Set(r, Respond(req, a.status, a.msg))
           ELSE IF findById(pid) = NoDoc THEN Set(r, Respond(req, 404, "Product not found"))
           ELSE IF OwnerForbidden(findById(pid), a.user)
           THEN Set(r, Respond(req, 403, "Not authorized to modify this product"))
           ELSE IF BodyError(b) # "" THEN Set(r, Respond(req, 400, BodyError(b)))
           ELSE Set(r, Await(req, "update_save", Delta(findById(pid), Edited(findById(pid), b))))
        /\ UNCHANGED <<users, nextUid, adds, products, files, carts, nextPid, nextFile, sales>>

\* product.save()
UpdateSave(r) ==
    /\ reqs[r].pc = "update_save"
    /\ IF SaveOk(reqs[r].pid)
       THEN /\ products' = Saved(reqs[r].pid, reqs[r].delta)
            /\ Set(r, Respond(reqs[r], 200, "Product updated successfully"))
       ELSE /\ Set(r, Respond(reqs[r], 500, "Failed to update product"))
            /\ UNCHANGED products
    /\ UNCHANGED <<users, nextUid, adds, files, carts, nextPid, nextFile, sales>>

\* the files a delete unlinks: the full path of each image, where it exists
DeleteTargets(doc) == {FullPath(image) : image \in doc.images} \cap files

\* auth, Product.findById, the seller-or-admin check and the unlinks
DeleteFind(r, tok, pid) ==
    LET a == auth(tok)
        req == [Started("delete", a.user, pid, NoInput) EXCEPT
                   !.paths = IF findById(pid) = NoDoc THEN {} ELSE findById(pid).images]
    IN  /\ IF ~a.ok THEN Set(r, Respond(req, a.status, a.msg)) /\ UNCHANGED files
           ELSE IF findById(pid) = NoDoc
           THEN Set(r, Respond(req, 404, "Product not found")) /\ UNCHANGED files
           ELSE IF OwnerForbidden(findById(pid), a.user)
           THEN Set(r, Respond(req, 403, "Not authorized to delete this product"))
                /\ UNCHANGED files
           ELSE /\ files' = Unlinked(DeleteTargets(findById(pid)))
                /\ Set(r, Await(req, "delete_remove", <<>>))
        /\ UNCHANGED <<users, nextUid, adds, products, carts, nextPid, nextFile, sales>>

\* Product.findByIdAndDelete
DeleteRemove(r) ==
    /\ reqs[r].pc = "delete_remove"
    /\ products' = [p \in DOMAIN products \ {reqs[r].pid} |-> products[p]]
    /\ Set(r, Respond(reqs[r], 200, "Product deleted successfully"))
    /\ UNCHANGED <<users, nextUid, adds, files, carts, nextPid, nextFile, sales>>

(* ------------------------ POST /products/checkout --------------------- *)

Pay(cardNumber, expiryDate, cvv) ==
    [cardNumber |-> cardNumber, expiryDate |-> expiryDate, cvv |-> cvv]
ValidPay == Pay("4111", "12/30", "123")
Payments == {ValidPay, Pay("4111", "12/30", "")}

\* !paymentInfo || !paymentInfo.cardNumber || !paymentInfo.expiryDate || !paymentInfo.cvv
PaymentMissing(pay) == pay.cardNumber = "" \/ pay.expiryDate = "" \/ pay.cvv = ""

NotAvailable == "This product is no longer available. It may have been purchased by another user."

\* what the handler answers from the document it read, "" to go on to the update
CheckoutRefusal(doc, pay) ==
    IF doc.status = "sold" \/ ~doc.isActive THEN NotAvailable
    ELSE IF doc.status # "approved" THEN "This product is not available for purchase"
    ELSE IF PaymentMissing(pay) THEN "Invalid payment information"
    ELSE ""

\* auth, Product.findById and the checks on the document read
CheckoutFind(r, tok, pid, addr, pay) ==
    LET a == auth(tok)
        req == Started("checkout", a.user, pid, [kind |-> "checkout", address |-> addr])
    IN  /\ sales[pid] < MaxSales
        /\ IF ~a.ok THEN Set(r, Respond(req, a.status, a.msg))
           ELSE IF findById(pid) = NoDoc THEN Set(r, Respond(req, 404, "Product not found"))
           ELSE IF CheckoutRefusal(findById(pid), pay) # ""
           THEN Set(r, Respond(req, 400, CheckoutRefusal(findById(pid), pay)))
           ELSE Set(r, Await(req, "checkout_update", <<>>))
        /\ UNCHANGED <<users, nextUid, adds, products, files, carts, nextPid, nextFile, sales>>

CheckoutFilterById(pid) == pid \in DOMAIN products

\* the filter of the conditional update: { _id, status: 'approved', isActive: true }
CheckoutFilter(pid) ==
    /\ pid \in DOMAIN products
    /\ products[pid].status = "approved"
    /\ products[pid].isActive

CheckoutSetKeepsActive(doc, buyer, addr) ==
    [doc EXCEPT !.status = "sold", !.buyer = buyer, !.soldAt = SomeDate,
                !.shippingAddress = addr]

\* the $set of the conditional update
CheckoutSet(doc, buyer, addr) ==
    [doc EXCEPT !.status = "sold", !.buyer = buyer, !.soldAt = SomeDate,
                !.shippingAddress = addr, !.isActive = FALSE]

\* Product.findOneAndUpdate(filter, $set, { new: true }) and the answer
CheckoutUpdate(r) ==
    LET pid == reqs[r].pid
    IN  /\ reqs[r].pc = "checkout_update"
        /\ IF CheckoutFilter(pid)
           THEN /\ products' = [products EXCEPT ![pid] =
                        CheckoutSet(@, reqs[r].user.id, reqs[r].input.address)]
                /\ sales' = [sales EXCEPT ![pid] = @ + 1]
                /\ Set(r, Respond(reqs[r], 200, "Purchase completed successfully"))
           ELSE /\ Set(r, Respond(reqs[r], 400, NotAvailable))
                /\ UNCHANGED <<products, sales>>
        /\ UNCHANGED <<users, nextUid, adds, files, carts, nextPid, nextFile>>

(* ---------------- GET /products/public, GET /products/search ---------- *)

Max(S) == CHOOSE m \in S : \A x \in S : x <= m

\* .sort({ createdAt: -1 }): ids are handed out in creation order
RECURSIVE NewestFirst(_)
NewestFirst(S) ==
    IF S = {} THEN <<>> ELSE <<Max(S)>> \o NewestFirst(S \ {Max(S)})

\* the documents of a find(), newest first, each with its id
Found(S) ==
    [i \in 1..Cardinality(S) |-> [id |-> NewestFirst(S)[i], doc |-> products[NewestFirst(S)[i]]]]

PublicFilterAnyActive(doc) == doc.status = "approved" /\ doc.soldAt = NoDate

\* { status: 'approved', isActive: true, soldAt: { $exists: false } }
PublicFilter(doc) ==
    doc.status = "approved" /\ doc.isActive /\ doc.soldAt = NoDate

GetPublic(r) ==
    /\ Set(r, [Respond(Started("public", NoUser, 0, NoInput), 200, "") EXCEPT
                  !.result = Found({p \in DOMAIN products : PublicFilter(products[p])})])
    /\ UNCHANGED <<users, nextUid, adds, products, files, carts, nextPid, nextFile, sales>>

Queries == {T_Empty, T_QueryHA, T_QueryOe}
CategoryFilters == {"", "shoes"}
MinPrices == {"", "25"}
MaxPrices == {"", "10"}

\* the query object GET /search builds from req.query
SearchFilter(doc, q, category, minPrice, maxPrice) ==
    /\ PublicFilter(doc)
    /\ q # <<>> => RegexMatch(doc.name, q) \/ RegexMatch(doc.description, q)
    /\ category # "" => doc.category = category
    /\ minPrice # "" => doc.price >= ParseFloat(minPrice)
    /\ maxPrice # "" => doc.price <= ParseFloat(maxPrice)

Search(r, q, category, minPrice, maxPrice) ==
    /\ Set(r, [Respond(Started("search", NoUser, 0, NoInput), 200,
                        "Search results fetched successfully") EXCEPT
                  !.result = Found({p \in DOMAIN products :
                      SearchFilter(products[p], q, category, minPrice, maxPrice)})])
    /\ UNCHANGED <<users, nextUid, adds, products, files, carts, nextPid, nextFile, sales>>

(* --------------------------- the marketplace -------------------------- *)

User(name, email, password, isAdmin) ==
    [name |-> name, email |-> email, password |-> password, isAdmin |-> isAdmin]

\* the accounts of the product behaviours: two ordinary users and an admin
Accounts ==
    [u \in UserIds |-> User(u, u, "hash", u = "admin")]

Init ==
    /\ users = Accounts
    /\ products = <<>>
    /\ files = {}
    /\ carts = <<>>
    /\ reqs = [r \in Slots |-> Idle]
    /\ nextPid = 1
    /\ nextFile = 0
    /\ nextUid = 1
    /\ adds = [u \in UserIds |-> [p \in CartProducts |-> 0]]
    /\ sales = [p \in ProductIds |-> 0]
    /\ server = Serving
    /\ db = "up"

\* the answer leaves the server
Close(r) ==
    /\ reqs[r].pc = "done"
    /\ Set(r, Idle)
    /\ UNCHANGED <<users, nextUid, adds, products, files, carts, nextPid, nextFile, sales>>

Next ==
    \E r \in Slots :
        \/ Close(r)
        \/ Free(r) /\ \E tok \in SellerTokens, n \in 0..MaxImages, b \in Bodies :
                          CreateUpload(r, tok, n, b)
        \/ \E stored \in BOOLEAN : CreateSave(r, stored)
        \/ Free(r) /\ \E tok \in Tokens, pid \in ProductIds, st \in StatusInputs :
                          ModerateFind(r, tok, pid, st)
        \/ ModerateSave(r)
        \/ Free(r) /\ \E tok \in Tokens, pid \in ProductIds : ToggleFind(r, tok, pid)
        \/ ToggleSave(r)
        \/ Free(r) /\ \E tok \in Tokens, pid \in ProductIds, b \in Bodies :
                          UpdateFind(r, tok, pid, b)
        \/ UpdateSave(r)
        \/ Free(r) /\ \E tok \in Tokens, pid \in ProductIds : DeleteFind(r, tok, pid)
        \/ DeleteRemove(r)
        \/ Free(r) /\ \E tok \in Tokens, pid \in ProductIds, addr \in Addresses,
                          pay \in Payments : CheckoutFind(r, tok, pid, addr, pay)
        \/ CheckoutUpdate(r)
        \/ Free(r) /\ GetPublic(r)
        \/ Free(r) /\ \E q \in Queries, c \in CategoryFilters, lo \in MinPrices,
                          hi \in MaxPrices : Search(r, q, c, lo, hi)

Spec == Init /\ [][Next]_vars

(* ----------------- POST /auth/register, /register-admin --------------- *)

Emails == {E_Ann, E_AnnUpper, E_Bob, E_NoAt}
Passwords == {"secret1", "secret2", "short"}
Names == {"Ann"}
AdminKeys == {"key", "guess"}

\* process.env.ADMIN_KEY
ADMIN_KEY == "key"

\* the email path's setters (trim, lowercase), run on documents and on filters
EmailSetters(e) == Lower(Trim(e))

\* validator.isEmail, for the addresses of Emails
IsEmail(e) == \E i \in 2..(Len(e) - 1) : e[i] = "@"

MinPasswordLength == 6

\* bcrypt.hash and bcrypt.compare
Hash(pw) == <<"bcrypt", pw>>
Compare(entered, hashed) == hashed = Hash(entered)

\* User.findOne({ email }): the id of the user, 0 for null
FindUser(email) ==
    IF \E u \in DOMAIN users : users[u].email = EmailSetters(email)
    THEN CHOOSE u \in DOMAIN users : users[u].email = EmailSetters(email)
    ELSE 0

\* the schema's validators, run by save() on the document as constructed
UserValid(doc) ==
    /\ doc.name # ""
    /\ doc.email # <<>> /\ IsEmail(doc.email)
    /\ Len(doc.password) >= MinPasswordLength

UniqueIndexMissing(email) == TRUE

\* the unique index on email admits a document with this email
UniqueIndexFree(email) == \A u \in DOMAIN users : users[u].email # email

Credentials(name, email, password, isAdmin) ==
    [kind |-> "credentials", name |-> name, email |-> email, password |-> password,
     isAdmin |-> isAdmin]

\* User.findOne and new User({...}) of either registration route
RegisterLookup(r, op, in) ==
    LET req == Started(op, NoUser, nextUid, in)
    IN  /\ IF FindUser(in.email) # 0
           THEN /\ Set(r, [Respond(req, 400, "User already exists") EXCEPT !.input = in])
                /\ UNCHANGED nextUid
           ELSE /\ nextUid <= MaxUsers
                /\ Set(r, Await(req, "save", <<>>))
                /\ nextUid' = nextUid + 1
        /\ UNCHANGED <<users, products, files, carts, nextPid, nextFile, sales, adds>>

\* user.save() of either registration route: validation, the password hash, the
\* insert under the unique index; then the token
RegisterInsert(r, op, failure) ==
    LET in == reqs[r].input
        doc == User(in.name, EmailSetters(in.email), in.password, in.isAdmin)
    IN  /\ reqs[r].pc = "save"
        /\ reqs[r].op = op
        /\ IF UserValid(doc) /\ UniqueIndexFree(doc.email)
           THEN /\ users' = [u \in DOMAIN users \cup {reqs[r].pid} |->
                                IF u = reqs[r].pid
                                THEN [doc EXCEPT !.password = Hash(in.password)]
                                ELSE users[u]]
                /\ Set(r, [Respond(reqs[r], 201, "") EXCEPT
                              !.input = in,
                              !.result = <<Jwt(reqs[r].pid, in.isAdmin)>>])
           ELSE /\ Set(r, [Respond(reqs[r], 500, failure) EXCEPT !.input = in])
                /\ UNCHANGED users
        /\ UNCHANGED <<products, files, carts, nextPid, nextFile, nextUid, sales, adds>>

RegisterFind(r, name, email, password) ==
    RegisterLookup(r, "register", Credentials(name, email, password, FALSE))

RegisterSave(r) == RegisterInsert(r, "register", "Server error")

RegisterAdminFind(r, name, email, password, adminKey) ==
    IF adminKey # ADMIN_KEY
    THEN /\ Set(r, [Respond(Started("register-admin", NoUser, 0, NoInput), 403,
                            "Invalid admin key") EXCEPT
                      !.input = Credentials(name, email, password, TRUE)])
         /\ UNCHANGED <<users, products, files, carts, nextPid, nextFile, nextUid,
                        sales, adds>>
    ELSE RegisterLookup(r, "register-admin", Credentials(name, email, password, TRUE))

RegisterAdminSave(r) == RegisterInsert(r, "register-admin", "error.message")

(* --------------------------- POST /auth/login ------------------------- *)

Answer(status, msg, result) == [status |-> status, msg |-> msg, result |-> result]

LoginAnswerLeaky(uid, password) ==
    IF uid = 0 THEN Answer(404, "User not found", <<>>)
    ELSE IF ~Compare(password, users[uid].password)
    THEN Answer(400, "Invalid credentials", <<>>)
    ELSE Answer(200, "", <<Jwt(uid, users[uid].isAdmin)>>)

\* the answer of POST /login for the user User.findOne returned
LoginAnswer(uid, password) ==
    IF uid = 0 THEN Answer(400, "Invalid credentials", <<>>)
    ELSE IF ~Compare(password, users[uid].password)
    THEN Answer(400, "Invalid credentials", <<>>)
    ELSE Answer(200, "", <<Jwt(uid, users[uid].isAdmin)>>)

Login(r, email, password) ==
    LET ans == LoginAnswer(FindUser(email), password)
    IN  /\ Set(r, [Respond(Started("login", NoUser, 0, NoInput), ans.status, ans.msg)
                      EXCEPT !.result = ans.result,
                             !.input = Credentials("", email, password, FALSE)])
        /\ UNCHANGED <<users, products, files, carts, nextPid, nextFile, nextUid,
                       sales, adds>>

\* an empty store
InitAuth ==
    /\ users = <<>>
    /\ products = <<>>
    /\ files = {}
    /\ carts = <<>>
    /\ reqs = [r \in Slots |-> Idle]
    /\ nextPid = 1
    /\ nextFile = 0
    /\ nextUid = 1
    /\ sales = [p \in ProductIds |-> 0]
    /\ server = Serving
    /\ db = "up"
    /\ adds = [u \in UserIds |-> [p \in CartProducts |-> 0]]

NextAuth ==
    \E r \in Slots :
        \/ Close(r)
        \/ Free(r) /\ \E n \in Names, e \in Emails, pw \in Passwords :
                          RegisterFind(r, n, e, pw)
        \/ RegisterSave(r)
        \/ Free(r) /\ \E n \in Names, e \in Emails, pw \in Passwords, k \in AdminKeys :
                          RegisterAdminFind(r, n, e, pw, k)
        \/ RegisterAdminSave(r)
        \/ Free(r) /\ \E e \in Emails, pw \in Passwords : Login(r, e, pw)

SpecAuth == InitAuth /\ [][NextAuth]_vars

(* ------------------------------- cart --------------------------------- *)

\* the quantity of a line pushed without one (the item schema's default)
DefaultQuantity == 1

\* the productId texts a request carries
CartProductIds == {P_One, P_OneUpper, P_Two, <<>>}
CartParams == {P_One, P_OneUpper, P_Two}

\* the cast of a hex text to the ObjectId of the item schema's product path:
\* hex digits are read in either case, and toString() writes them in lower case
CastObjectId(text) == Oid(Lower(text))
CartTokens == {NoToken, Jwt("seller", FALSE), Jwt("buyer", FALSE)}

\* Cart.findOne({ user }): the index of the user's cart, 0 for null
FindCart(user) ==
    IF \E i \in DOMAIN carts : carts[i].user = user
    THEN CHOOSE i \in DOMAIN carts :
             carts[i].user = user /\ \A j \in DOMAIN carts : carts[j].user = user => i <= j
    ELSE 0

\* cart.items.find(item => item.product.toString() === productId): the index of
\* the line, 0 for undefined
CartLine(items, productId) ==
    IF \E j \in DOMAIN items : StrictEq(IdToString(items[j].product), Str(productId))
    THEN CHOOSE j \in DOMAIN items :
             /\ StrictEq(IdToString(items[j].product), Str(productId))
             /\ \A k \in DOMAIN items :
                    StrictEq(IdToString(items[k].product), Str(productId)) => j <= k
    ELSE 0

\* existingItem.quantity += 1, or cart.items.push({ product: productId })
ItemsAfterAdd(items, productId) ==
    IF CartLine(items, productId) # 0
    THEN [items EXCEPT ![CartLine(items, productId)].quantity = @ + 1]
    ELSE Append(items, [product |-> CastObjectId(productId), quantity |-> DefaultQuantity])

\* cart.items.filter(item => item.product.toString() !== productId)
RECURSIVE ItemsWithout(_, _)
ItemsWithout(items, productId) ==
    IF items = <<>> THEN <<>>
    ELSE IF StrictEq(IdToString(Head(items).product), Str(productId))
         THEN ItemsWithout(Tail(items), productId)
         ELSE <<Head(items)>> \o ItemsWithout(Tail(items), productId)

\* cart.save() of the cart found at index i (0: the new cart) with these items
CartsAfterSave(i, user, items) ==
    IF i = 0 THEN Append(carts, [user |-> user, items |-> items])
    ELSE [carts EXCEPT ![i].items = items]

ItemsOf(user) == IF FindCart(user) = 0 THEN <<>> ELSE carts[FindCart(user)].items

\* the adds counted for a user once these items are saved: the count of a
\* product starts again when the cart has no line of it
AddsAfter(u, items, counted) ==
    [adds EXCEPT ![u] = [p \in CartProducts |->
        IF \E j \in DOMAIN items : items[j].product = Oid(p) THEN counted[p] ELSE 0]]

\* POST /cart/add, run from the request to the answer
CartAdd(r, tok, productId) ==
    LET a == auth(tok)
        req == Started("cart-add", a.user, 0, [kind |-> "cart", product |-> productId])
        keep(x) == [x EXCEPT !.input = req.input]
        items == ItemsAfterAdd(ItemsOf(a.user.id), productId)
    IN  /\ IF ~a.ok
           THEN Set(r, keep(Respond(req, a.status, a.msg))) /\ UNCHANGED <<carts, adds>>
           ELSE IF productId = <<>>
           THEN Set(r, keep(Respond(req, 400, "Product ID is required")))
                /\ UNCHANGED <<carts, adds>>
           ELSE /\ \A j \in DOMAIN items : items[j].quantity <= MaxQuantity
                /\ Len(items) <= MaxLines
                /\ carts' = CartsAfterSave(FindCart(a.user.id), a.user.id, items)
                /\ adds' = AddsAfter(a.user.id.val, items,
                       [adds[a.user.id.val] EXCEPT ![Lower(productId)] = @ + 1])
                /\ Set(r, [keep(Respond(req, 200, "")) EXCEPT !.result = items])
        /\ UNCHANGED <<users, products, files, nextPid, nextFile, nextUid, sales>>

\* DELETE /cart/remove/:productId, run from the request to the answer
CartRemove(r, tok, productId) ==
    LET a == auth(tok)
        req == Started("cart-remove", a.user, 0, [kind |-> "cart", product |-> productId])
        items == ItemsWithout(ItemsOf(a.user.id), productId)
    IN  /\ IF ~a.ok
           THEN Set(r, Respond(req, a.status, a.msg)) /\ UNCHANGED <<carts, adds>>
           ELSE IF FindCart(a.user.id) = 0
           THEN Set(r, Respond(req, 404, "Cart not found")) /\ UNCHANGED <<carts, adds>>
           ELSE /\ carts' = CartsAfterSave(FindCart(a.user.id), a.user.id, items)
                /\ adds' = AddsAfter(a.user.id.val, items, adds[a.user.id.val])
                /\ Set(r, [Respond(req, 200, "") EXCEPT !.result = items])
        /\ UNCHANGED <<users, products, files, nextPid, nextFile, nextUid, sales>>

\* DELETE /cart/clear, run from the request to the answer
CartClear(r, tok) ==
    LET a == auth(tok)
        req == Started("cart-clear", a.user, 0, NoInput)
    IN  /\ IF ~a.ok
           THEN Set(r, Respond(req, a.status, a.msg)) /\ UNCHANGED <<carts, adds>>
           ELSE IF FindCart(a.user.id) = 0
           THEN Set(r, Respond(req, 404, "Cart not found")) /\ UNCHANGED <<carts, adds>>
           ELSE /\ carts' = CartsAfterSave(FindCart(a.user.id), a.user.id, <<>>)
                /\ adds' = AddsAfter(a.user.id.val, <<>>, adds[a.user.id.val])
                /\ Set(r, Respond(req, 200, "Cart cleared"))
        /\ UNCHANGED <<users, products, files, nextPid, nextFile, nextUid, sales>>

\* GET /cart
CartGet(r, tok) ==
    LET a == auth(tok)
        req == Started("cart-get", a.user, 0, NoInput)
    IN  /\ IF ~a.ok THEN Set(r, Respond(req, a.status, a.msg))
           ELSE Set(r, [Respond(req, 200, "") EXCEPT !.result = ItemsOf(a.user.id)])
        /\ UNCHANGED <<users, products, files, carts, nextPid, nextFile, nextUid,
                       sales, adds>>

\* cart requests one after the other: a request is taken when the one before
\* is answered
NextCart ==
    \/ Close("r1")
    \/ Free("r1") /\ \E tok \in CartTokens, p \in CartProductIds : CartAdd("r1", tok, p)
    \/ Free("r1") /\ \E tok \in CartTokens, p \in CartParams : CartRemove("r1", tok, p)
    \/ Free("r1") /\ \E tok \in CartTokens : CartClear("r1", tok)
    \/ Free("r1") /\ \E tok \in CartTokens : CartGet("r1", tok)

SpecCart == Init /\ [][NextCart]_vars

(* ------------- GET /products/pending, GET /products/admin/stats -------- *)

\* the tokens of the admin routes: also an admin's token signed without the claim
AdminRouteTokens == Tokens \cup {Jwt("admin", FALSE)}

\* the documents of a find() without sort, in insertion order, each with its id
FoundInOrder(S) ==
    [i \in 1..Cardinality(S) |-> Found(S)[Cardinality(S) + 1 - i]]

\* auth, adminAuth and Product.find({ status: 'pending' })
GetPending(r, tok) ==
    LET a == adminAuth(auth(tok))
        req == Started("pending", a.user, 0, NoInput)
    IN  /\ IF ~a.ok THEN Set(r, Respond(req, a.status, a.msg))
           ELSE Set(r, [Respond(req, 200, "") EXCEPT
                           !.result = FoundInOrder({p \in DOMAIN products :
                                          products[p].status = "pending"})])
        /\ UNCHANGED <<users, nextUid, adds, products, files, carts, nextPid, nextFile, sales>>

\* auth, adminAuth and User.countDocuments()
GetStats(r, tok) ==
    LET a == adminAuth(auth(tok))
        req == Started("stats", a.user, 0, NoInput)
    IN  /\ IF ~a.ok THEN Set(r, Respond(req, a.status, a.msg))
           ELSE Set(r, [Await(req, "stats_products", <<>>) EXCEPT
                           !.result = <<Cardinality(DOMAIN users)>>])
        /\ UNCHANGED <<users, nextUid, adds, products, files, carts, nextPid, nextFile, sales>>

\* Product.countDocuments() and the answer { totalUsers, totalProducts }
StatsProducts(r) ==
    /\ reqs[r].pc = "stats_products"
    /\ Set(r, [Respond(reqs[r], 200, "") EXCEPT
                  !.result = Append(reqs[r].result, Cardinality(DOMAIN products))])
    /\ UNCHANGED <<users, nextUid, adds, products, files, carts, nextPid, nextFile, sales>>

\* a store with one product that was created and waits for moderation
InitAdmin ==
    /\ users = Accounts
    /\ \E b \in ValidBodies, n \in 1..MaxImages, seller \in {"seller", "admin"} :
          /\ products = (1 :> NewProduct(b, {ImagePath(f) : f \in 1..n}, Oid(seller)))
          /\ files = {FilePath(f) : f \in 1..n}
          /\ nextFile = n
    /\ carts = <<>>
    /\ reqs = [r \in Slots |-> Idle]
    /\ nextPid = 2
    /\ nextUid = 1
    /\ sales = [p \in ProductIds |-> 0]
    /\ server = Serving
    /\ db = "up"
    /\ adds = [u \in UserIds |-> [p \in CartProducts |-> 0]]

\* the admin routes, and the delete that a moderation may race with
NextAdmin ==
    \E r \in Slots :
        \/ Close(r)
        \/ Free(r) /\ \E tok \in AdminRouteTokens, pid \in DOMAIN products,
                          st \in StatusInputs : ModerateFind(r, tok, pid, st)
        \/ ModerateSave(r)
        \/ Free(r) /\ \E tok \in AdminRouteTokens : GetPending(r, tok)
        \/ Free(r) /\ \E tok \in AdminRouteTokens : GetStats(r, tok)
        \/ StatsProducts(r)
        \/ Free(r) /\ \E tok \in Tokens, pid \in DOMAIN products : DeleteFind(r, tok, pid)
        \/ DeleteRemove(r)

SpecAdmin == InitAdmin /\ [][NextAdmin]_vars

(* ------ GET /products, /products/my-products, /auth/profile, /verify --- *)

\* GET /products: Product.find({ status: 'approved', isActive: true })
GetProducts(r, tok) ==
    LET a == auth(tok)
        req == Started("list", a.user, 0, NoInput)
    IN  /\ IF ~a.ok THEN Set(r, Respond(req, a.status, a.msg))
           ELSE Set(r, [Respond(req, 200, "Products fetched successfully") EXCEPT
                           !.result = Found({p \in DOMAIN products :
                               products[p].status = "approved" /\ products[p].isActive})])
        /\ UNCHANGED <<users, nextUid, adds, products, files, carts, nextPid, nextFile, sales>>

\* GET /products/my-products: Product.find({ seller: req.user.id })
MyProducts(r, tok) ==
    LET a == auth(tok)
        req == Started("my-products", a.user, 0, NoInput)
    IN  /\ IF ~a.ok THEN Set(r, Respond(req, a.status, a.msg))
           ELSE Set(r, [Respond(req, 200, "") EXCEPT
                           !.result = Found({p \in DOMAIN products :
                                                products[p].seller = a.user.id})])
        /\ UNCHANGED <<users, nextUid, adds, products, files, carts, nextPid, nextFile, sales>>

\* GET /auth/profile: User.findById(req.user.id).select('-password')
Profile(r, tok) ==
    LET a == auth(tok)
        req == Started("profile", a.user, 0, NoInput)
        user == users[a.user.id.val]
    IN  /\ IF ~a.ok THEN Set(r, Respond(req, a.status, a.msg))
           ELSE Set(r, [Respond(req, 200, "") EXCEPT
                           !.result = <<[name |-> user.name, email |-> user.email,
                                         isAdmin |-> user.isAdmin]>>])
        /\ UNCHANGED <<users, nextUid, adds, products, files, carts, nextPid, nextFile, sales>>

\* GET /auth/verify
Verify(r, tok) ==
    LET a == auth(tok)
        req == Started("verify", a.user, 0, NoInput)
    IN  /\ IF ~a.ok THEN Set(r, Respond(req, a.status, a.msg))
           ELSE Set(r, Respond(req, 200, "Token is valid"))
        /\ UNCHANGED <<users, nextUid, adds, products, files, carts, nextPid, nextFile, sales>>

\* the tokens auth rejects: none, one that jwt.verify refuses, one of a user who
\* is not in the store
RejectedTokens == {NoToken, BadToken, Jwt(GhostId, FALSE), Jwt(GhostId, TRUE)}

\* a store with a product, its image files and possibly a cart
InitProtected ==
    /\ users = Accounts
    /\ \E b \in ValidBodies, n \in 1..MaxImages, seller \in {"seller", "admin"},
          st \in {"pending", "approved"} :
          /\ products = (1 :> [NewProduct(b, {ImagePath(f) : f \in 1..n}, Oid(seller))
                                   EXCEPT !.status = st])
          /\ files = {FilePath(f) : f \in 1..n}
          /\ nextFile = n
    /\ \E lines \in 0..1 :
          /\ carts = IF lines = 0 THEN <<>>
                     ELSE <<[user |-> Oid("buyer"),
                             items |-> <<[product |-> Oid(P_One),
                                          quantity |-> DefaultQuantity]>>]>>
          /\ adds = [u \in UserIds |-> [p \in CartProducts |->
                        IF lines = 1 /\ u = "buyer" /\ p = P_One THEN 1 ELSE 0]]
    /\ reqs = [r \in Slots |-> Idle]
    /\ nextPid = 2
    /\ nextUid = 1
    /\ sales = [p \in ProductIds |-> 0]
    /\ server = Serving
    /\ db = "up"

\* the first step of a request with this token to a route mounted behind auth
ProtectedStep(r, tok) ==
    \/ \E n \in 0..MaxImages, b \in Bodies : CreateUpload(r, tok, n, b)
    \/ GetProducts(r, tok)
    \/ MyProducts(r, tok)
    \/ GetPending(r, tok)
    \/ GetStats(r, tok)
    \/ \E pid \in ProductIds, st \in StatusInputs : ModerateFind(r, tok, pid, st)
    \/ \E pid \in ProductIds : ToggleFind(r, tok, pid)
    \/ \E pid \in ProductIds, b \in Bodies : UpdateFind(r, tok, pid, b)
    \/ \E pid \in ProductIds : DeleteFind(r, tok, pid)
    \/ \E pid \in ProductIds, addr \in Addresses, pay \in Payments :
           CheckoutFind(r, tok, pid, addr, pay)
    \/ Profile(r, tok)
    \/ Verify(r, tok)
    \/ CartGet(r, tok)
    \/ \E p \in CartProductIds : CartAdd(r, tok, p)
    \/ \E p \in CartParams : CartRemove(r, tok, p)
    \/ CartClear(r, tok)

\* requests that carry a token auth rejects, to every route behind auth
NextProtected ==
    \E r \in Slots :
        \/ Close(r)
        \/ Free(r) /\ \E tok \in RejectedTokens, n \in 0..MaxImages, b \in Bodies :
                          CreateUpload(r, tok, n, b)
        \/ Free(r) /\ \E tok \in RejectedTokens : GetProducts(r, tok)
        \/ Free(r) /\ \E tok \in RejectedTokens : MyProducts(r, tok)
        \/ Free(r) /\ \E tok \in RejectedTokens : GetPending(r, tok)
        \/ Free(r) /\ \E tok \in RejectedTokens : GetStats(r, tok)
        \/ Free(r) /\ \E tok \in RejectedTokens, pid \in ProductIds, st \in StatusInputs :
                          ModerateFind(r, tok, pid, st)
        \/ Free(r) /\ \E tok \in RejectedTokens, pid \in ProductIds : ToggleFind(r, tok, pid)
        \/ Free(r) /\ \E tok \in RejectedTokens, pid \in ProductIds, b \in Bodies :
                          UpdateFind(r, tok, pid, b)
        \/ Free(r) /\ \E tok \in RejectedTokens, pid \in ProductIds : DeleteFind(r, tok, pid)
        \/ Free(r) /\ \E tok \in RejectedTokens, pid \in ProductIds, addr \in Addresses,
                          pay \in Payments : CheckoutFind(r, tok, pid, addr, pay)
        \/ Free(r) /\ \E tok \in RejectedTokens : Profile(r, tok)
        \/ Free(r) /\ \E tok \in RejectedTokens : Verify(r, tok)
        \/ Free(r) /\ \E tok \in RejectedTokens : CartGet(r, tok)
        \/ Free(r) /\ \E tok \in RejectedTokens, p \in CartProductIds : CartAdd(r, tok, p)
        \/ Free(r) /\ \E tok \in RejectedTokens, p \in CartParams : CartRemove(r, tok, p)
        \/ Free(r) /\ \E tok \in RejectedTokens : CartClear(r, tok)

SpecProtected == InitProtected /\ [][NextProtected]_vars

(* ------------------------------ startup ------------------------------- *)

\* the body of connectWithRetry up to mongoose.connect(mongoURI)
Attempt(s) ==
    IF s.uri = "" THEN [s EXCEPT !.pc = "exited"]
    ELSE [s EXCEPT !.pc = "connecting", !.attempts = IF @ < MaxAttempts THEN @ + 1 ELSE @]

OnRejectExit(s) == [s EXCEPT !.pc = "exited"]

\* .catch: setTimeout(connectWithRetry, 5000)
OnReject(s) == [s EXCEPT !.pc = "waiting", !.timers = Append(@, RetryDelay)]

\* the end of the .then callback: app.use of the routes and app.listen(PORT)
Listen(s, indexes) ==
    [s EXCEPT !.pc = "listening", !.indexes = indexes, !.mounted = TRUE,
              !.listening = TRUE, !.port = IF @ = 0 THEN DefaultPort ELSE @]

\* connectWithRetry() at the end of the module
ConnectWithRetry ==
    /\ server.pc = "start"
    /\ server' = Attempt(server)
    /\ UNCHANGED <<store, db>>

\* mongoose.connect resolves
ConnectResolve ==
    /\ server.pc = "connecting"
    /\ db = "up"
    /\ server' = [server EXCEPT !.pc = "product_indexes", !.connected = TRUE]
    /\ UNCHANGED <<store, db>>

\* mongoose.connect rejects
ConnectReject ==
    /\ server.pc = "connecting"
    /\ db = "down"
    /\ server' = OnReject(server)
    /\ UNCHANGED <<store, db>>

\* the timer set by .catch fires: connectWithRetry()
TimerFire ==
    /\ server.pc = "waiting"
    /\ server.timers # <<>>
    /\ server' = Attempt([server EXCEPT !.timers = Tail(@)])
    /\ UNCHANGED <<store, db>>

\* await Product.createIndexes(): an error skips to the catch of the try block
ProductIndexes(ok) ==
    /\ server.pc = "product_indexes"
    /\ server' = IF ok THEN [server EXCEPT !.pc = "user_indexes"]
                 ELSE Listen(server, "failed")
    /\ UNCHANGED <<store, db>>

\* await User.createIndexes(), then the routes and app.listen
UserIndexes(ok) ==
    /\ server.pc = "user_indexes"
    /\ server' = Listen(server, IF ok THEN "created" ELSE "failed")
    /\ UNCHANGED <<store, db>>

\* the database becomes reachable or unreachable
DbFlip ==
    /\ db' = IF db = "up" THEN "down" ELSE "up"
    /\ UNCHANGED <<store, server>>

\* the process as node starts it, with what .env holds
InitStartup ==
    /\ users = <<>>
    /\ products = <<>>
    /\ files = {}
    /\ carts = <<>>
    /\ reqs = [r \in Slots |-> Idle]
    /\ nextPid = 1
    /\ nextFile = 0
    /\ nextUid = 1
    /\ sales = [p \in ProductIds |-> 0]
    /\ adds = [u \in UserIds |-> [p \in CartProducts |-> 0]]
    /\ \E uri \in {"", MONGO_URL}, port \in {0, 8080} :
          server = [pc |-> "start", uri |-> uri, port |-> port, attempts |-> 0,
                    timers |-> <<>>, connected |-> FALSE, indexes |-> "none",
                    mounted |-> FALSE, listening |-> FALSE]
    /\ db \in {"up", "down"}

NextStartup ==
    \/ ConnectWithRetry
    \/ ConnectResolve
    \/ ConnectReject
    \/ TimerFire
    \/ \E ok \in BOOLEAN : ProductIndexes(ok)
    \/ \E ok \in BOOLEAN : UserIndexes(ok)
    \/ DbFlip

\* the event loop runs every callback that is due: the first call, the
\* settlement of each promise, each timer
SpecStartup ==
    /\ InitStartup
    /\ [][NextStartup]_vars
    /\ WF_vars(ConnectWithRetry)
    /\ WF_vars(ConnectResolve)
    /\ WF_vars(ConnectReject)
    /\ WF_vars(TimerFire)
    /\ WF_vars(\E ok \in BOOLEAN : ProductIndexes(ok))
    /\ WF_vars(\E ok \in BOOLEAN : UserIndexes(ok))

(* ------------------- two checkouts of one product --------------------- *)

BuyerTokens == {Jwt(u, u = "admin") : u \in UserIds}

\* a store with one product that was created and approved, and no request yet
InitCheckout ==
    /\ users = Accounts
    /\ \E b \in ValidBodies, n \in 1..MaxImages, seller \in {"seller", "admin"} :
          /\ products = (1 :> [NewProduct(b, {ImagePath(f) : f \in 1..n}, Oid(seller))
                                   EXCEPT !.status = "approved"])
          /\ files = {FilePath(f) : f \in 1..n}
          /\ nextFile = n
    /\ carts = <<>>
    /\ reqs = [r \in Slots |-> Idle]
    /\ nextPid = 2
    /\ nextUid = 1
    /\ sales = [p \in ProductIds |-> 0]
    /\ server = Serving
    /\ db = "up"
    /\ adds = [u \in UserIds |-> [p \in CartProducts |-> 0]]

\* each slot runs one checkout of the product, with valid payment information
NextCheckout ==
    \E r \in Slots :
        \/ /\ reqs[r].pc = "idle"
           /\ \E tok \in BuyerTokens, pid \in DOMAIN products, addr \in Addresses :
                 CheckoutFind(r, tok, pid, addr, ValidPay)
        \/ CheckoutUpdate(r)

SpecCheckout == InitCheckout /\ [][NextCheckout]_vars

(* ------------------------------ claims -------------------------------- *)

Answered(r, op) == reqs[r].pc = "done" /\ reqs[r].op = op

\* C1: of two concurrent checkouts of an approved, active product, under every
\* interleaving of their store operations, exactly one is answered with success
\* and the other with the 400 'no longer available' answer.
C1_ExactlyOneCheckoutSucceeds ==
    LET done == {r \in Slots : Answered(r, "checkout")}
        won == {r \in done : reqs[r].status = 200}
    IN  /\ Cardinality(won) <= 1
        /\ \A r \in done \ won : reqs[r].status = 400 /\ reqs[r].msg = NotAvailable
        /\ done = Slots => Cardinality(won) = 1

C1_BothAnswered == \A r \in Slots : Answered(r, "checkout")

\* C2: a product is sold at most once: at most one checkout of a product id is
\* answered with success, and a recorded buyer is never replaced.
C2_SoldAtMostOnce ==
    /\ [](\A p \in ProductIds : sales[p] <= 1)
    /\ [][\A p \in DOMAIN products \cap DOMAIN products' :
              products[p].buyer # NoRef => products'[p].buyer = products[p].buyer]_vars

\* C3: a product that has left pending never has status pending again.
C3_NeverBackToPending ==
    [][\A p \in DOMAIN products \cap DOMAIN products' :
          products[p].status # "pending" => products'[p].status # "pending"]_vars

C3_UpdatedAfterModeration ==
    \E r \in Slots :
        /\ Answered(r, "update")
        /\ reqs[r].status = 200
        /\ reqs[r].pid \in DOMAIN products
        /\ products[reqs[r].pid].status \in {"approved", "rejected", "sold"}

\* The lines of a user's cart for a product.
LinesFor(u, p) ==
    {j \in DOMAIN ItemsOf(Oid(u)) : ItemsOf(Oid(u))[j].product = Oid(p)}

\* C4: after k successive answered adds of a product by a user, from no cart
\* or a cart without the product, the user's cart has one line of the product,
\* with quantity k.
C4_OneLinePerProduct ==
    \A u \in UserIds, p \in CartProducts :
        IF adds[u][p] = 0 THEN LinesFor(u, p) = {}
        ELSE /\ Cardinality(LinesFor(u, p)) = 1
             /\ \A j \in LinesFor(u, p) : ItemsOf(Oid(u))[j].quantity = adds[u][p]

\* C5: no answer of the public listing or of a search holds a product that is
\* sold, that is not approved, or that is not active.
C5_ListingsOnlyApprovedActive ==
    \A r \in Slots :
        Answered(r, "public") \/ Answered(r, "search") =>
            \A i \in DOMAIN reqs[r].result :
                /\ reqs[r].result[i].doc.status # "sold"
                /\ reqs[r].result[i].doc.status = "approved"
                /\ reqs[r].result[i].doc.isActive

C5_ListingWithProduct ==
    \E r \in Slots :
        /\ Answered(r, "public") \/ Answered(r, "search")
        /\ reqs[r].result # <<>>

\* C6: when a delete is answered with success, none of the product's image
\* files is in the uploads directory and the product is not in the store.
C6_DeleteRemovesImages ==
    \A r \in Slots :
        Answered(r, "delete") /\ reqs[r].status = 200 =>
            /\ \A image \in reqs[r].paths, f \in files : f.name # image.name
            /\ reqs[r].pid \notin DOMAIN products

C6_DeletedWithTwoImages ==
    \E r \in Slots :
        /\ Answered(r, "delete")
        /\ reqs[r].status = 200
        /\ Cardinality(reqs[r].paths) >= 2

\* C7: a registration whose email a stored user holds is answered with an error
\* and leaves the users unchanged, and no two users ever have the same email.
C7_DuplicateEmailRejected ==
    /\ [](\A u, v \in DOMAIN users : u # v => users[u].email # users[v].email)
    /\ [][\A r \in Slots :
              (/\ reqs[r].pc # "done"
               /\ Answered(r, "register")' \/ Answered(r, "register-admin")'
               /\ \E u \in DOMAIN users :
                     users[u].email = EmailSetters(reqs'[r].input.email)) =>
                  reqs'[r].status >= 400 /\ users' = users]_vars

C7_RejectedByIndex ==
    \E r \in Slots :
        /\ Answered(r, "register") \/ Answered(r, "register-admin")
        /\ reqs[r].status = 500
        /\ \E u \in DOMAIN users : users[u].email = EmailSetters(reqs[r].input.email)

\* C8: a login with an email no user holds and a login with a held email and a
\* wrong password get the same answer: 400, 'Invalid credentials', no token.
C8_LoginNoEnumeration ==
    [][\A r \in Slots :
          reqs[r].pc = "idle" /\ Answered(r, "login")' =>
              LET held == {u \in DOMAIN users :
                              users[u].email = EmailSetters(reqs'[r].input.email)}
              IN  \/ \E u \in held : users[u].password = Hash(reqs'[r].input.password)
                  \/ /\ reqs'[r].status = 400
                     /\ reqs'[r].msg = "Invalid credentials"
                     /\ reqs'[r].result = <<>>]_vars

C8_WrongPassword ==
    \E r \in Slots :
        /\ Answered(r, "login")
        /\ reqs[r].status = 400
        /\ \E u \in DOMAIN users :
              /\ users[u].email = EmailSetters(reqs[r].input.email)
              /\ users[u].password # Hash(reqs[r].input.password)

\* C9: a checkout is answered with success only by its conditional update, and
\* only when that update finds the product approved and active; the same step
\* leaves the product sold, inactive, with the requesting user as buyer, a sold
\* timestamp and the request's shipping address; a conditional update that finds
\* no such product, and a checkout of a product that is sold or inactive, are
\* answered with the 400 'no longer available' answer.
C9_CheckoutConditionalUpdate ==
    [][\A r \in Slots :
          LET p == reqs'[r].pid
              answers == reqs[r].pc # "done" /\ Answered(r, "checkout")'
          IN  /\ answers /\ reqs'[r].status = 200 =>
                    /\ reqs[r].pc = "checkout_update"
                    /\ p \in DOMAIN products
                    /\ products[p].status = "approved" /\ products[p].isActive
                    /\ products' = [products EXCEPT ![p] =
                           [@ EXCEPT !.status = "sold", !.isActive = FALSE,
                                     !.buyer = reqs[r].user.id, !.soldAt = SomeDate,
                                     !.shippingAddress = reqs[r].input.address]]
              /\ answers /\ reqs[r].pc = "checkout_update" /\ reqs'[r].status # 200 =>
                    /\ reqs'[r].status = 400 /\ reqs'[r].msg = NotAvailable
                    /\ products' = products
              /\ (/\ answers \/ reqs'[r].pc = "checkout_update"
                  /\ reqs[r].pc = "idle"
                  /\ reqs'[r].op = "checkout"
                  /\ reqs'[r].user # NoUser
                  /\ p \in DOMAIN products
                  /\ products[p].status = "sold" \/ ~products[p].isActive) =>
                    /\ reqs'[r].pc = "done"
                    /\ reqs'[r].status = 400 /\ reqs'[r].msg = NotAvailable]_vars

C9_Purchased ==
    \E r \in Slots :
        /\ Answered(r, "checkout")
        /\ reqs[r].status = 200
        /\ reqs[r].pid \in DOMAIN products
        /\ products[reqs[r].pid].status = "sold"
        /\ products[reqs[r].pid].buyer = reqs[r].user.id

\* C11: an update or a delete sent by an authenticated user who is neither the
\* product's seller nor an admin is answered 403 and leaves the products and the
\* files unchanged; sent by the seller or by an admin it is not answered 403.
C11_OnlySellerOrAdmin ==
    [][\A r \in Slots :
          LET p == reqs'[r].pid
              user == reqs'[r].user
          IN  (/\ reqs[r].pc = "idle"
               /\ reqs'[r].op \in {"update", "delete"}
               /\ user # NoUser
               /\ p \in DOMAIN products) =>
                  IF products[p].seller = user.id \/ users[user.id.val].isAdmin
                  THEN ~(reqs'[r].pc = "done" /\ reqs'[r].status = 403)
                  ELSE /\ reqs'[r].pc = "done" /\ reqs'[r].status = 403
                       /\ products' = products
                       /\ files' = files]_vars

C11_StrangerRefused ==
    \E r \in Slots :
        /\ Answered(r, "update") \/ Answered(r, "delete")
        /\ reqs[r].status = 403
        /\ reqs[r].pid \in DOMAIN products
        /\ products[reqs[r].pid].seller # reqs[r].user.id

\* C12: a toggle-active sent by the product's seller or by an admin is not
\* refused, and when it is answered with success the active flag is the negation
\* of what it was and status, seller and buyer are unchanged; sent by anyone
\* else it is answered 403 and leaves the product unchanged.
C12_ToggleBySellerOrAdmin ==
    [][\A r \in Slots :
          LET p == reqs'[r].pid
              user == reqs'[r].user
          IN  /\ (/\ reqs[r].pc = "idle"
                  /\ reqs'[r].op = "toggle"
                  /\ user # NoUser
                  /\ p \in DOMAIN products) =>
                     IF products[p].seller = user.id \/ users[user.id.val].isAdmin
                     THEN reqs'[r].pc = "toggle_save"
                     ELSE /\ reqs'[r].pc = "done" /\ reqs'[r].status = 403
                          /\ products' = products
              /\ (/\ reqs[r].pc = "toggle_save"
                  /\ reqs'[r].pc = "done"
                  /\ reqs'[r].status = 200) =>
                     /\ products'[p].isActive = ~products[p].isActive
                     /\ products'[p].status = products[p].status
                     /\ products'[p].seller = products[p].seller
                     /\ products'[p].buyer = products[p].buyer]_vars

\* C13: when a create is answered with a failure, none of the files the request
\* uploaded is in the uploads directory and no product is stored for it; when it
\* is answered with success, the product is stored with status pending.
C13_NoOrphanedFiles ==
    \A r \in Slots :
        Answered(r, "create") =>
            IF reqs[r].status = 201
            THEN /\ reqs[r].pid \in DOMAIN products
                 /\ products[reqs[r].pid].status = "pending"
            ELSE /\ \A f \in reqs[r].paths : FilePath(f) \notin files
                 /\ reqs[r].pid \notin DOMAIN products

\* the first step of a request to an admin route with this token
AdminRouteStep(r, tok) ==
    \/ \E pid \in ProductIds, st \in StatusInputs : ModerateFind(r, tok, pid, st)
    \/ GetPending(r, tok)
    \/ GetStats(r, tok)

\* C14: a request to an admin route by a user of the store goes on only when the
\* user's record has the admin flag, whatever the token claims, and is answered
\* 403 with the products unchanged otherwise; a product's status is set by a
\* moderation only for a request that passed that check.
C14_AdminFlagFromStore ==
    [][\A r \in Slots :
          /\ \A tok \in AdminRouteTokens :
                (/\ tok.kind = "jwt"
                 /\ tok.id \in DOMAIN users
                 /\ AdminRouteStep(r, tok)) =>
                    IF users[tok.id].isAdmin
                    THEN reqs'[r].status \notin {401, 403}
                    ELSE /\ reqs'[r].pc = "done"
                         /\ reqs'[r].status = 403
                         /\ products' = products
          /\ (/\ reqs[r].op \in {"moderate", "pending", "stats"}
              /\ reqs[r].pc # "done"
              /\ reqs'[r].pc = "done"
              /\ reqs'[r].status = 200) =>
                 /\ reqs'[r].user # NoUser
                 /\ users[reqs'[r].user.id.val].isAdmin
          /\ \A p \in DOMAIN products \cap DOMAIN products' :
                products'[p].status # products[p].status =>
                    \E x \in Slots :
                        /\ reqs[x].pc = "moderate_save"
                        /\ reqs[x].pid = p
                        /\ users[reqs[x].user.id.val].isAdmin]_vars

C14_NonAdminRefused ==
    \E r \in Slots :
        /\ Answered(r, "moderate") \/ Answered(r, "pending") \/ Answered(r, "stats")
        /\ reqs[r].status = 403

\* C15: a request to a route behind auth that carries no token, a token that
\* fails verification or the token of a user who is not in the store is answered
\* 401 at once, and no user, product, cart or file changes.
C15_RejectedWith401 ==
    [][\A r \in Slots, tok \in Tokens \cup RejectedTokens :
          (/\ tok.kind # "jwt" \/ tok.id \notin DOMAIN users
           /\ ProtectedStep(r, tok)) =>
              /\ reqs'[r].pc = "done"
              /\ reqs'[r].status = 401
              /\ reqs'[r].user = NoUser
              /\ UNCHANGED <<users, products, carts, files>>]_vars

C15_GhostRejected ==
    \E r \in Slots :
        /\ reqs[r].pc = "done"
        /\ reqs[r].status = 401
        /\ reqs[r].msg = "User not found"
        /\ reqs[r].op \in {"cart-add", "delete", "checkout"}
        /\ products # <<>>

\* C16: a product is in the public listing or in a search result only after an
\* admin's moderation set its status to approved: the answers hold approved
\* products only, a product enters the store pending, and the only step that
\* makes a product approved is the save of an admin's moderation to approved.
C16_VisibleOnlyAfterModeration ==
    /\ [](\A r \in Slots :
            Answered(r, "public") \/ Answered(r, "search") =>
                \A i \in DOMAIN reqs[r].result : reqs[r].result[i].doc.status = "approved")
    /\ [][\A p \in DOMAIN products' :
              /\ p \notin DOMAIN products => products'[p].status = "pending"
              /\ (/\ p \in DOMAIN products
                  /\ products[p].status # "approved"
                  /\ products'[p].status = "approved") =>
                     \E x \in Slots :
                         /\ reqs[x].pc = "moderate_save"
                         /\ reqs[x].pid = p
                         /\ reqs[x].input.status = "approved"
                         /\ reqs[x].user.isAdmin
                         /\ reqs'[x].pc = "done" /\ reqs'[x].status = 200]_vars

C16_ListedAfterApproval ==
    \E r \in Slots :
        /\ Answered(r, "public")
        /\ \E i \in DOMAIN reqs[r].result :
              /\ reqs[r].result[i].id \in DOMAIN products
              /\ products[reqs[r].result[i].id].status = "approved"

\* C17: with a connection string, a failed attempt sets exactly one timer of
\* the fixed delay and the timer starts exactly one new attempt; the routes are
\* mounted and the server listens only after an attempt succeeded; if the
\* database becomes reachable for good the server eventually listens; without a
\* connection string the process exits with no attempt and no timer.
C17_StartupRetry ==
    /\ [][(server.pc = "connecting" /\ server'.pc \notin {"connecting", "product_indexes"}) =>
              /\ server'.pc = "waiting"
              /\ server.timers = <<>>
              /\ server'.timers = <<RetryDelay>>]_vars
    /\ [][server'.timers # server.timers /\ server.timers # <<>> =>
              /\ server'.timers = <<>>
              /\ server'.pc = "connecting"]_vars
    /\ [](server.mounted \/ server.listening => server.connected)
    /\ [](server.uri = "" =>
              /\ server.pc \in {"start", "exited"}
              /\ server.attempts = 0
              /\ server.timers = <<>>
              /\ ~server.listening)
    /\ (server.uri # "" /\ <>[](db = "up")) => <>server.listening

C17_ListeningAfterRetry ==
    /\ server.listening
    /\ server.attempts >= 2
    /\ server.port = DefaultPort

\* C18: in every state a sold product is inactive and has a buyer and a sold
\* timestamp, and a product with a buyer is sold.
C18_SoldConsistent ==
    \A p \in DOMAIN products :
        /\ products[p].status = "sold" =>
              /\ ~products[p].isActive
              /\ products[p].buyer # NoRef
              /\ products[p].soldAt # NoDate
        /\ products[p].buyer # NoRef => products[p].status = "sold"

\* C10: every change of a product's status is pending -> approved,
\* pending -> rejected or approved -> sold.
C10_StatusEdges ==
    [][\A p \in DOMAIN products \cap DOMAIN products' :
          products'[p].status # products[p].status =>
              <<products[p].status, products'[p].status>> \in
                  {<<"pending", "approved">>, <<"pending", "rejected">>,
                   <<"approved", "sold">>}]_vars
====
